---- MODULE Spec2Model ----
(***************************************************************************)
(* DoomSat ViZDoom hook (src/hook.py): the Tier-0 telemetry recorder T0    *)
(* (JSON-line sink + F' binary frame sink) and the two step loops that     *)
(* drive it, run_episode and play_manual.                                  *)
(*                                                                         *)
(* Two specifications share the state:                                     *)
(*   SpecT0  the recorder driven directly through its methods              *)
(*           (write_jsonl, write_fprime, close) with arbitrary arguments;  *)
(*   Spec    the step loops of run_episode and play_manual, from the       *)
(*           construction of T0 to the end of the finally block.           *)
(*                                                                         *)
(* Python values: None is the empty tuple <<>>, an int v that may be None  *)
(* is <<v>>; a dict is a function on strings; a file object is a record    *)
(* [st, buf, disk] (handle state, lines buffered, lines flushed).          *)
(* The wall clock is a logical clock in whole seconds.                     *)
(***************************************************************************)
EXTENDS Integers, Sequences, FiniteSets, TLC

\* ----------------------------------------------------------------- bounds
MaxStep  == 12   \* loop iterations explored by Spec
MaxKills == 1    \* kills the engine reports within one episode
MaxCalls == 3    \* recorder method calls explored by SpecT0

\* ------------------------------------------------------ program constants
U16Max == 65535  \* upper clamp of a frame field (struct format "H")

VARIABLES
  mode,           \* "api" | "run_episode" | "play_manual"
  cfg,            \* the session parameters (function arguments), never changed
  pc,             \* position of the driver
  g,              \* the engine's observable state (DoomGame)
  t0,             \* the T0 object: jsonl, fbin, prev_health, prev_dmg_out, prev_kills
  step,           \* local `step` of the loop
  dmg_out_total,  \* local `dmg_out_total` of the loop
  exc,            \* the exception propagating out of the driver, or "none"
  calls,          \* history: number of recorder method calls made (SpecT0)
  last,           \* history: what the latest write_jsonl call built, <<>> if the
                  \*   latest step made no such call
  frame,          \* history: what the latest write_fprime call did, <<>> likewise
  recorded,       \* history: the steps at which the loop called write_jsonl
  checked,        \* history: the steps at which the loop reached the cadence test
  seen,           \* history: the arguments of the previous write_jsonl call
  acc_dmg,        \* history: health lost, summed tick by tick, since the last record
  acc_gain,       \* history: health gained, summed tick by tick, since the last record
  tally           \* history: kills that occurred in the session, and the sum of
                  \*   kills_delta over the records written

vars == <<mode, cfg, pc, g, t0, step, dmg_out_total, exc, calls, last, frame,
          recorded, checked, seen, acc_dmg, acc_gain, tally>>

None == <<>>

Max(a, b) == IF a >= b THEN a ELSE b

\* ------------------------------------------------------------- utilities

\* plausible slip: a 16-bit wrap-around instead of saturation
clampWrap(v, lo, hi) == lo + ((v - lo) % (hi - lo + 1))

\* def clamp(v, lo, hi): return lo if v < lo else hi if v > hi else v
clamp(v, lo, hi) == IF v < lo THEN lo ELSE IF v > hi THEN hi ELSE v

\* NOMINAL_DMG.get(slot, 10)
NOMINAL_DMG(slot) ==
  CASE slot = 2 -> 10
    [] slot = 3 -> 35
    [] slot = 4 -> 12
    [] slot = 5 -> 100
    [] slot = 6 -> 20
    [] slot = 7 -> 250
    [] OTHER    -> 10

\* Python's a % n for n # 0: the result has the sign of n.
PyMod(a, n) == IF n > 0 THEN a % n ELSE -((-a) % (-n))

\* time.time() as whole seconds of a logical clock that has ticked n times
ClockAt(n) == 1000 + n

\* ------------------------------------------------------------ file objects

NoFile == [st |-> "None", buf |-> 0, disk |-> 0]

\* plausible slip: a sink is opened whether or not a destination is given
OpenSinkAlways(path) == [st |-> "Open", buf |-> 0, disk |-> 0]

\* open(path, "ab") if path else None
OpenSink(path) == IF path THEN [st |-> "Open", buf |-> 0, disk |-> 0] ELSE NoFile

\* `if self.jsonl:` -- a file object is truthy, open or closed; None is not
Truthy(f) == f.st # "None"

\* f.write(line): the line goes to the buffer
FileWrite(f) == [f EXCEPT !.buf = @ + 1]

\* plausible slip: the flush is left out
FileFlushOmitted(f) == f

\* f.flush(): everything buffered reaches the destination
FileFlush(f) == [f EXCEPT !.disk = @ + f.buf, !.buf = 0]

\* f.close(): flushes, then releases the handle
FileClose(f) == [FileFlush(f) EXCEPT !.st = "Closed"]

\* f.write(x); f.flush() under the I/O outcome io: "ok", "write_fails" (OSError
\* out of write, nothing buffered) or "flush_fails" (OSError out of flush, the
\* line stays in the buffer). A closed file raises ValueError.
SinkWrite(f, io) ==
  IF f.st = "Closed" THEN [f |-> f, err |-> "ValueError"]
  ELSE IF io = "write_fails" THEN [f |-> f, err |-> "OSError"]
  ELSE IF io = "flush_fails" THEN [f |-> FileWrite(f), err |-> "OSError"]
  ELSE [f |-> FileFlush(FileWrite(f)), err |-> "none"]

IoOutcomes == {"ok", "write_fails", "flush_fails"}

\* The I/O outcomes a call on sink f can meet: only an open sink does I/O
IoFor(f) == IF f.st = "Open" THEN IoOutcomes ELSE {"ok"}

\* --------------------------------------------------------------- class T0

\* T0.__init__
T0Init(jsonl_path, fprime_path) ==
  [jsonl        |-> OpenSink(jsonl_path),
   fbin         |-> OpenSink(fprime_path),
   prev_health  |-> None,
   prev_dmg_out |-> 0,
   prev_kills   |-> 0]

\* T0.close
T0Close(self) ==
  [self EXCEPT !.jsonl = IF Truthy(self.jsonl) THEN FileClose(self.jsonl) ELSE @,
               !.fbin  = IF Truthy(self.fbin)  THEN FileClose(self.fbin)  ELSE @]

\* plausible slip: the baseline starts at full health instead of None
DmgInDeltaFullHealth(prev_health, h) ==
  IF prev_health = None THEN Max(0, 100 - h) ELSE Max(0, prev_health[1] - h)

\* plausible slip: the clamp at zero is left out
DmgInDeltaNoClamp(prev_health, h) ==
  IF prev_health = None THEN 0 ELSE prev_health[1] - h

\* write_jsonl, "# Deltas": damage taken
DmgInDelta(prev_health, h) ==
  IF prev_health = None THEN 0 ELSE Max(0, prev_health[1] - h)

\* plausible slip: the delta is taken against the session start, not the baseline
DmgOutDeltaFromZero(total, prev_dmg_out) == Max(0, total - 0)

\* write_jsonl, "# Deltas": damage dealt
DmgOutDelta(total, prev_dmg_out) == Max(0, total - prev_dmg_out)

\* write_jsonl, "# Deltas": kills
KillsDelta(kills, prev_kills) == Max(0, kills - prev_kills)

\* json.dumps(rec, separators=(",", ":"), sort_keys=True).encode(): with the
\* keys sorted, the bytes are determined by the key -> value mapping, which is
\* what the model keeps of them.
Canonical(rec) == [k \in DOMAIN rec |-> rec[k]]

\* f"{zlib.crc32(body) & 0xffffffff:08x}": the digest is kept as a tag around
\* its input (two digests are equal exactly when their inputs are; collisions
\* of the 32-bit code are not modelled).
Crc32(body) == [crc32_of |-> body]

\* The dict literal of write_jsonl. In a Python dict display a later key
\* overrides an earlier one, so base_meta overrides the five keys before it
\* and is overridden by the keys after it. (pose, keys, secrets_found,
\* resources, performance and faults are constants or float reads that no
\* delta depends on; selected_weapon is carried.)
BuildRec(base_meta, now, step_, h, a, sel, dmg_in_delta, dmg_out_delta, kills_delta) ==
  [level  |-> IF "level_start" \in DOMAIN base_meta THEN base_meta["level_start"] ELSE "E1M1",
   health |-> h,
   armor  |-> a,
   selected_weapon |-> sel,
   combat |-> [dmg_in_delta |-> dmg_in_delta, dmg_out_delta |-> dmg_out_delta,
               kills_delta |-> kills_delta],
   outcome |-> "ALIVE"]
  @@ base_meta
  @@ [type |-> "tier0_telemetry", schema |-> "v1", unix_time |-> now,
      unix_time_ms |-> now * 1000, step |-> step_]

\* T0.write_jsonl(base_meta, g, dmg_out_total, ammo_used, step): the new object
\* state, the record built, the bytes the checksum was computed over, and the
\* exception raised ("none" when the call returns).
write_jsonl(self, base_meta, game, total, step_, now, io) ==
  LET h     == game.health
      a     == game.armor
      kills == game.kills
      dmg_in_delta  == DmgInDelta(self.prev_health, h)
      dmg_out_delta == DmgOutDelta(total, self.prev_dmg_out)
      kills_delta   == KillsDelta(kills, self.prev_kills)
      self1 == [self EXCEPT !.prev_health = <<h>>, !.prev_dmg_out = total,
                            !.prev_kills = kills]
      rec0  == BuildRec(base_meta, now, step_, h, a, game.sel,
                        dmg_in_delta, dmg_out_delta, kills_delta)
      body  == Canonical(rec0)
      rec1  == ("crc32c" :> Crc32(body)) @@ rec0
      w     == IF Truthy(self.jsonl) THEN SinkWrite(self.jsonl, io)
               ELSE [f |-> self.jsonl, err |-> "none"]
  IN  [self |-> [self1 EXCEPT !.jsonl = w.f], rec |-> rec1, body |-> body,
       err |-> w.err]

\* struct.pack raises struct.error for an "H" argument outside 0..65535
InRangeH(v) == v >= 0 /\ v <= U16Max

\* struct.pack for one "H" field: two big-endian bytes
PackH(v) == <<v \div 256, v % 256>>

\* struct.pack for the "I" field: four big-endian bytes
PackI(v) == <<(v \div 16777216) % 256, (v \div 65536) % 256, (v \div 256) % 256, v % 256>>

\* b"DSF0"
Magic == <<68, 83, 70, 48>>

\* T0.write_fprime(g): the new object state, the packet written (<<>> when none
\* was) and the exception raised.
write_fprime(self, game, now, io) ==
  IF ~Truthy(self.fbin) THEN [self |-> self, pkt |-> <<>>, err |-> "none"]
  ELSE
    LET h == clamp(game.health, 0, U16Max)
        a == clamp(game.armor, 0, U16Max)
        kills == clamp(game.kills, 0, U16Max)
    IN  IF ~(InRangeH(h) /\ InRangeH(a) /\ InRangeH(kills))
        THEN [self |-> self, pkt |-> <<>>, err |-> "struct.error"]
        ELSE LET w == SinkWrite(self.fbin, io)
             IN  [self |-> [self EXCEPT !.fbin = w.f],
                  pkt  |-> IF w.f.buf + w.f.disk > self.fbin.buf + self.fbin.disk
                           THEN Magic \o PackI(now) \o PackH(h) \o PackH(a) \o PackH(kills)
                           ELSE <<>>,
                  err  |-> w.err]

\* A reader's decoding of one "H" field at byte offset i of a packet
UnpackH(pkt, i) == pkt[i] * 256 + pkt[i + 1]

\* g.new_episode(): the engine's state at the start of an episode
Fresh == [health |-> 100, armor |-> 0, kills |-> 0, finished |-> FALSE, sel |-> 2]

\* ------------------------------------------------- SpecT0: the recorder's API

\* Engine snapshots a caller may present (health, armor, kill count), among
\* them values above 65535 and negative ones.
GameSnaps ==
  { [health |-> s[1], armor |-> s[2], kills |-> s[3], finished |-> FALSE, sel |-> 2] :
      s \in { <<100, 0, 0>>, <<57, 32, 4>>, <<70000, 70000, 70000>>, <<-10, -1, -1>> } }

\* Cumulative damage-dealt totals a caller may pass
Totals == {10, 45}

\* meta of run_episode
MetaEpisode ==
  [run_id |-> "42", episode_id |-> "7", algo_id |-> "linear-policy",
   git |-> "a1b2c3d", rng_seed |-> 123456, level_start |-> "E1M1"]

\* meta of play_manual
MetaManual ==
  [run_id |-> "42", episode_id |-> "manual", algo_id |-> "manual",
   git |-> "a1b2c3d", rng_seed |-> 123456, level_start |-> "E1M1"]

RequiredIds == {"run_id", "episode_id", "algo_id"}

\* base_meta arguments: the program's own, one with a required identifier
\* missing, one that already carries a crc32c key
Metas ==
  { MetaEpisode,
    [k \in DOMAIN MetaEpisode \ {"run_id"} |-> MetaEpisode[k]],
    ("crc32c" :> Crc32([stale |-> TRUE])) @@ MetaEpisode }

NoSeen == [n |-> 0, health |-> None, total |-> 0, kills |-> 0]

\* History only: no kill has occurred, no record has been written
NoTally == [occurred |-> 0, reported |-> 0]

\* History only: what a write_jsonl call leaves for the next one to compare with
Seen(game, total) ==
  [n |-> seen.n + 1, health |-> <<game.health>>, total |-> total, kills |-> game.kills]

\* History only: the latest write_jsonl call -- its result r, the object before
\* it, its arguments, and what the call before it had seen
LastJsonl(r, game, total, io) ==
  [rec |-> r.rec, body |-> r.body, err |-> r.err, base |-> t0, game |-> game,
   total |-> total, io |-> io, before |-> seen]

\* History only: the latest write_fprime call
LastFrame(r, game, io) ==
  [pkt |-> r.pkt, err |-> r.err, base |-> t0, game |-> game, io |-> io]

DefaultCfg ==
  [t0_every |-> 0, steps |-> 0, auto_restart |-> FALSE, attack |-> FALSE,
   jsonl_path |-> FALSE, fprime_path |-> FALSE]

InitT0 ==
  /\ mode = "api"
  /\ \E jp \in BOOLEAN, fp \in BOOLEAN :
       cfg = [DefaultCfg EXCEPT !.jsonl_path = jp, !.fprime_path = fp]
  /\ pc = "api"
  /\ g = Fresh
  /\ t0 = T0Init(cfg.jsonl_path, cfg.fprime_path)
  /\ step = 0
  /\ dmg_out_total = 0
  /\ exc = "none"
  /\ calls = 0
  /\ last = None
  /\ frame = None
  /\ recorded = {}
  /\ checked = {}
  /\ seen = NoSeen
  /\ acc_dmg = 0
  /\ acc_gain = 0
  /\ tally = NoTally

\* a caller invokes t0.write_jsonl(base_meta, g, dmg_out_total, ammo_used, step)
ApiWriteJsonl ==
  /\ mode = "api" /\ calls < MaxCalls
  /\ \E game \in GameSnaps, base_meta \in Metas, total \in Totals, io \in IoFor(t0.jsonl) :
       LET r == write_jsonl(t0, base_meta, game, total, calls + 1, ClockAt(calls), io)
       IN  /\ g' = game
           /\ t0' = r.self
           /\ exc' = r.err
           /\ last' = LastJsonl(r, game, total, io)
           /\ seen' = Seen(game, total)
  /\ frame' = None
  /\ calls' = calls + 1
  /\ UNCHANGED <<mode, cfg, pc, step, dmg_out_total, recorded, checked, acc_dmg, acc_gain, tally>>

\* a caller invokes t0.write_fprime(g)
ApiWriteFprime ==
  /\ mode = "api" /\ calls < MaxCalls
  /\ \E game \in GameSnaps, io \in IoFor(t0.fbin) :
       LET r == write_fprime(t0, game, ClockAt(calls), io)
       IN  /\ g' = game
           /\ t0' = r.self
           /\ exc' = r.err
           /\ frame' = LastFrame(r, game, io)
  /\ last' = None
  /\ calls' = calls + 1
  /\ UNCHANGED <<mode, cfg, pc, step, dmg_out_total, recorded, checked, seen,
                 acc_dmg, acc_gain, tally>>

\* a caller invokes t0.close()
ApiClose ==
  /\ mode = "api" /\ calls < MaxCalls
  /\ t0' = T0Close(t0)
  /\ exc' = "none"
  /\ last' = None
  /\ frame' = None
  /\ calls' = calls + 1
  /\ UNCHANGED <<mode, cfg, pc, g, step, dmg_out_total, recorded, checked, seen,
                 acc_dmg, acc_gain, tally>>

NextT0 == ApiWriteJsonl \/ ApiWriteFprime \/ ApiClose

SpecT0 == InitT0 /\ [][NextT0]_vars

\* ------------------------------------- Spec: run_episode and play_manual

\* --t0-every values (argparse type=int: any integer)
Cadences == {-2, 0, 5}

\* --steps values: 0 is "no limit"
StepLimits == {0, 5}

\* --hold / --hold-after-manual values
Holds == {0, 2}

\* health values the engine reports after a tick
TickHealth == {40, 70, 100}

\* destinations: (t0_jsonl, fprime_frames) given or not. The loops are run
\* with both sinks; SpecT0 covers every combination.
SinkPaths == {<<TRUE, TRUE>>}

\* The session parameters of one run. attack is the player's input: the
\* scripted policy always attacks, and the manual player is taken to hold
\* ATTACK as well. hold is read in the finally block only and is drawn there.
Configs ==
  { [t0_every |-> n, steps |-> k, auto_restart |-> ar, attack |-> at,
     jsonl_path |-> sp[1], fprime_path |-> sp[2]] :
      n \in Cadences, k \in StepLimits, ar \in BOOLEAN, at \in {TRUE},
      sp \in SinkPaths }

\* meta, the dict literal each loop passes to write_jsonl
Meta == IF mode = "play_manual" THEN MetaManual ELSE MetaEpisode

\* plausible slip: steps counted from 0, so the test is made on step - 1
CadenceFromZero(t0_every, s) == t0_every # 0 /\ PyMod(s - 1, t0_every) = 0

\* `if t0_every and step % t0_every == 0:`
Cadence(t0_every, s) == t0_every # 0 /\ PyMod(s, t0_every) = 0

\* play_manual: `if g.is_episode_finished(): if auto_restart: g.new_episode()`
Restarted(gm) ==
  IF mode = "play_manual" /\ gm.finished /\ cfg.auto_restart THEN Fresh ELSE gm

\* the loop ends because the episode is finished
EpisodeOver == g.finished /\ ~(mode = "play_manual" /\ cfg.auto_restart)

\* `if steps and step >= steps: break`
StepLimit == cfg.steps # 0 /\ step >= cfg.steps

\* kills explored within one session: one more than fit in an episode, so
\* that a restarted episode can add to the first one's
MaxSessionKills == MaxKills + 1

\* g.make_action(action, n): what the engine may report afterwards. Health
\* moves freely (damage, pickups, the hp_floor aid), the kill count of an
\* episode never decreases, and the episode may end.
Advance(gm) ==
  { [gm EXCEPT !.health = h, !.kills = k, !.finished = f] :
      h \in TickHealth,
      k \in {gm.kills, IF gm.kills < MaxKills /\ tally.occurred < MaxSessionKills
                        THEN gm.kills + 1 ELSE gm.kills},
      f \in BOOLEAN }

\* whether ATTACK is pressed in this iteration
AttackChoices == {cfg.attack}

\* History only: the tick-by-tick sums are kept while records are being made
Acc(sum, d) == IF cfg.t0_every = 0 THEN sum ELSE sum + d

\* the final position of the driver: it returns, or the exception goes on
End == IF exc = "none" THEN "done" ELSE "raised"

Init ==
  /\ mode \in {"run_episode", "play_manual"}
  /\ cfg \in Configs
  /\ (mode = "run_episode" => ~cfg.auto_restart /\ cfg.attack)
  /\ pc = IF mode = "run_episode" THEN "new_episode" ELSE "loop"
  /\ g = Fresh
  /\ t0 = T0Init(cfg.jsonl_path, cfg.fprime_path)
  /\ step = 0
  /\ dmg_out_total = 0
  /\ exc = "none"
  /\ calls = 0
  /\ last = None
  /\ frame = None
  /\ recorded = {}
  /\ checked = {}
  /\ seen = NoSeen
  /\ acc_dmg = 0
  /\ acc_gain = 0
  /\ tally = NoTally

\* run_episode: g.new_episode() between the construction of T0 and the try
NewEpisode ==
  /\ mode = "run_episode" /\ pc = "new_episode"
  /\ g' = Fresh
  /\ pc' = "loop"
  /\ UNCHANGED <<mode, cfg, t0, step, dmg_out_total, exc, calls, last, frame,
                 recorded, checked, seen, acc_dmg, acc_gain, tally>>

\* run_episode: g.new_episode() raises (the engine is gone, the window was
\* closed): the exception leaves run_episode before the try is entered
NewEpisodeRaises ==
  /\ mode = "run_episode" /\ pc = "new_episode"
  /\ exc' = "Error"
  /\ pc' = "raised"
  /\ UNCHANGED <<mode, cfg, g, t0, step, dmg_out_total, calls, last, frame,
                 recorded, checked, seen, acc_dmg, acc_gain, tally>>

\* the loop ends: episode finished, or step limit reached
LoopExit ==
  /\ pc = "loop"
  /\ EpisodeOver \/ StepLimit
  /\ g' = Restarted(g)
  /\ pc' = "finally"
  /\ last' = None
  /\ frame' = None
  /\ UNCHANGED <<mode, cfg, t0, step, dmg_out_total, exc, calls,
                 recorded, checked, seen, acc_dmg, acc_gain, tally>>

\* History only: the kills of one tick, from engine state a to engine state b
\* of the same episode
Killed(a, b) == b.kills - a.kills

\* History only: health lost and gained from engine state a to engine state b
Loss(a, b) == Max(0, a.health - b.health)
Gain(a, b) == Max(0, b.health - a.health)

\* one iteration that reaches the cadence test and does not record
StepQuiet ==
  /\ pc = "loop" /\ ~(EpisodeOver \/ StepLimit) /\ step < MaxStep
  /\ ~Cadence(cfg.t0_every, step + 1)
  /\ \E gn \in Advance(Restarted(g)), attack \in AttackChoices :
       /\ g' = gn
       /\ dmg_out_total' = dmg_out_total + (IF attack THEN NOMINAL_DMG(gn.sel) ELSE 0)
       /\ acc_dmg' = Acc(acc_dmg, Loss(Restarted(g), gn))
       /\ acc_gain' = Acc(acc_gain, Gain(g, Restarted(g)) + Gain(Restarted(g), gn))
       /\ tally' = [tally EXCEPT !.occurred = @ + Killed(Restarted(g), gn)]
  /\ step' = step + 1
  /\ checked' = checked \cup {step + 1}
  /\ last' = None
  /\ frame' = None
  /\ UNCHANGED <<mode, cfg, pc, t0, exc, calls, recorded, seen>>

\* one iteration that records: write_jsonl, then write_fprime; an exception
\* out of either write leaves the loop for the finally block
StepRecord ==
  /\ pc = "loop" /\ ~(EpisodeOver \/ StepLimit) /\ step < MaxStep
  /\ Cadence(cfg.t0_every, step + 1)
  /\ \E gn \in Advance(Restarted(g)), attack \in AttackChoices,
        io1 \in IoFor(t0.jsonl), io2 \in IoFor(t0.fbin) :
       LET total == dmg_out_total + (IF attack THEN NOMINAL_DMG(gn.sel) ELSE 0)
           r1 == write_jsonl(t0, Meta, gn, total, step + 1, ClockAt(step + 1), io1)
           r2 == write_fprime(r1.self, gn, ClockAt(step + 1), io2)
       IN  /\ g' = gn
           /\ dmg_out_total' = total
           /\ last' = [window_dmg  |-> acc_dmg + Loss(Restarted(g), gn),
                       window_gain |-> acc_gain + Gain(g, Restarted(g))
                                       + Gain(Restarted(g), gn)]
                      @@ LastJsonl(r1, gn, total, io1)
           /\ seen' = Seen(gn, total)
           /\ tally' = [occurred |-> tally.occurred + Killed(Restarted(g), gn),
                        reported |-> tally.reported
                                     + (IF r1.err = "none"
                                        THEN r1.rec["combat"].kills_delta ELSE 0)]
           /\ IF r1.err # "none"
              THEN /\ t0' = r1.self
                   /\ frame' = None
                   /\ exc' = r1.err
                   /\ pc' = "finally"
              ELSE /\ t0' = r2.self
                   /\ frame' = [LastFrame(r2, gn, io2) EXCEPT !.base = r1.self]
                   /\ exc' = r2.err
                   /\ pc' = IF r2.err = "none" THEN "loop" ELSE "finally"
  /\ acc_dmg' = 0
  /\ acc_gain' = 0
  /\ step' = step + 1
  /\ checked' = checked \cup {step + 1}
  /\ recorded' = recorded \cup {step + 1}
  /\ UNCHANGED <<mode, cfg, calls>>

\* KeyboardInterrupt inside the loop (play_manual raises it itself on QUIT and
\* ESC; Ctrl+C raises it in either loop): caught by `except KeyboardInterrupt`
StepInterrupted ==
  /\ pc = "loop" /\ ~(EpisodeOver \/ StepLimit) /\ step < MaxStep
  /\ g' = Restarted(g)
  /\ step' = step + 1
  /\ pc' = "finally"
  /\ last' = None
  /\ frame' = None
  /\ UNCHANGED <<mode, cfg, t0, dmg_out_total, exc, calls, recorded, checked,
                 seen, acc_dmg, acc_gain, tally>>

\* g.make_action raises inside the loop: no except clause catches it, the
\* finally block runs and the exception goes on
StepEngineError ==
  /\ pc = "loop" /\ ~(EpisodeOver \/ StepLimit) /\ step < MaxStep
  /\ g' = Restarted(g)
  /\ step' = step + 1
  /\ exc' = "Error"
  /\ pc' = "finally"
  /\ last' = None
  /\ frame' = None
  /\ UNCHANGED <<mode, cfg, t0, dmg_out_total, calls, recorded, checked,
                 seen, acc_dmg, acc_gain, tally>>

\* finally: t0.close() -- first thing in run_episode, after the hold in play_manual
CloseSinks ==
  /\ \/ mode = "run_episode" /\ pc = "finally"
     \/ mode = "play_manual" /\ pc = "closing"
  /\ t0' = T0Close(t0)
  /\ pc' = IF mode = "run_episode" THEN "holding" ELSE End
  /\ last' = None
  /\ frame' = None
  /\ UNCHANGED <<mode, cfg, g, step, dmg_out_total, exc, calls, recorded, checked,
                 seen, acc_dmg, acc_gain, tally>>

\* finally: `if hold > 0: try: time.sleep(hold) except KeyboardInterrupt: pass`.
\* The sleep ends or is interrupted; the interrupt is swallowed, so both leave
\* the same state.
HoldWait ==
  /\ \/ mode = "run_episode" /\ pc = "holding"
     \/ mode = "play_manual" /\ pc = "finally"
  /\ \E hold \in Holds : \E interrupted \in (IF hold > 0 THEN BOOLEAN ELSE {FALSE}) :
       pc' = IF mode = "play_manual" THEN "closing" ELSE End
  /\ last' = None
  /\ frame' = None
  /\ UNCHANGED <<mode, cfg, g, t0, step, dmg_out_total, exc, calls, recorded,
                 checked, seen, acc_dmg, acc_gain, tally>>

Next ==
  \/ NewEpisode
  \/ NewEpisodeRaises
  \/ LoopExit
  \/ StepQuiet
  \/ StepRecord
  \/ StepInterrupted
  \/ StepEngineError
  \/ CloseSinks
  \/ HoldWait

Spec == Init /\ [][Next]_vars

\* ------------------------------------------------------ claims under SpecT0

Min(a, b) == IF a <= b THEN a ELSE b

\* lines (written, flushed or not) a file object has accepted
Written(f) == f.buf + f.disk

\* C1: the dmg_in_delta of the first write_jsonl call on a recorder is 0
\* whatever the health; that of every later call is max(0, health seen by the
\* previous call - health seen by this call), hence never negative.
C1_DmgIn ==
  last # None =>
    /\ last.rec["combat"].dmg_in_delta >= 0
    /\ last.before.n = 0 => last.rec["combat"].dmg_in_delta = 0
    /\ last.before.n > 0 =>
         LET d == last.before.health[1] - last.game.health
         IN  last.rec["combat"].dmg_in_delta = (IF d > 0 THEN d ELSE 0)

\* C1 witness: a later call that saw a health drop, and a first call below full health
C1_Witness ==
  /\ last # None /\ last.before.n > 0
  /\ last.before.health[1] = 100 /\ last.game.health = 57
  /\ last.rec["combat"].dmg_in_delta = 43

\* C2: when the cumulative damage-dealt total passed to a call is not below the
\* one passed to the call before it (0 before the first call), dmg_out_delta is
\* their difference, and the call leaves the total as the new baseline.
C2_DmgOut ==
  last # None =>
    /\ t0.prev_dmg_out = last.total
    /\ last.total >= last.before.total =>
         last.rec["combat"].dmg_out_delta = last.total - last.before.total

\* C2 witness: a second call with a larger total than the first
C2_Witness ==
  /\ last # None /\ last.before.n > 0
  /\ last.before.total = 10 /\ last.total = 45
  /\ last.rec["combat"].dmg_out_delta = 35

\* C6: a recorder built without destinations never does sink I/O and none of
\* its calls raises; each sink alone is optional: a call on a disabled sink
\* changes nothing and raises nothing, and an enabled, open sink takes exactly
\* one line (frame) per call whose I/O succeeds, whatever the other sink is.
C6_DisabledSink ==
  /\ ~cfg.jsonl_path => t0.jsonl = NoFile
  /\ ~cfg.fprime_path => t0.fbin = NoFile
  /\ (~cfg.jsonl_path /\ ~cfg.fprime_path) => exc = "none"
  /\ (last # None /\ ~cfg.jsonl_path) => last.err = "none" /\ t0.fbin = last.base.fbin
  /\ (frame # None /\ ~cfg.fprime_path) =>
       frame.err = "none" /\ frame.pkt = <<>> /\ t0.jsonl = frame.base.jsonl
  /\ (last # None /\ cfg.jsonl_path /\ last.base.jsonl.st = "Open" /\ last.io = "ok") =>
       /\ Written(t0.jsonl) = Written(last.base.jsonl) + 1
       /\ t0.fbin = last.base.fbin
  /\ (frame # None /\ cfg.fprime_path /\ frame.base.fbin.st = "Open" /\ frame.io = "ok") =>
       /\ Written(t0.fbin) = Written(frame.base.fbin) + 1
       /\ t0.jsonl = frame.base.jsonl

\* C6 witness: all three methods called on a recorder without destinations
C6_Witness ==
  /\ ~cfg.jsonl_path /\ ~cfg.fprime_path
  /\ calls = 3 /\ seen.n = 1 /\ frame # None

\* C6 second witness state: one sink disabled, the other written
C6_WitnessOther ==
  /\ ~cfg.jsonl_path /\ cfg.fprime_path
  /\ seen.n = 1 /\ frame # None /\ Written(t0.fbin) = 1

\* C7: every frame field is the saturating clamp min(max(v, 0), 65535) of the
\* engine's value: never a wrapped value, never an error.
C7_Clamp ==
  frame # None =>
    /\ frame.err # "struct.error"
    /\ frame.pkt # <<>> =>
         /\ Len(frame.pkt) = 14
         /\ UnpackH(frame.pkt, 9)  = Min(Max(frame.game.health, 0), 65535)
         /\ UnpackH(frame.pkt, 11) = Min(Max(frame.game.armor, 0), 65535)
         /\ UnpackH(frame.pkt, 13) = Min(Max(frame.game.kills, 0), 65535)

\* C7 witness: health 70000 encoded as 65535
C7_Witness ==
  /\ frame # None /\ frame.pkt # <<>>
  /\ frame.game.health = 70000
  /\ UnpackH(frame.pkt, 9) = 65535

\* C8 (as claimed): the fields the checksum covers never include crc32c.
C8_CrcExcludesItself ==
  last # None => "crc32c" \notin DOMAIN last.body

\* C9: when write_jsonl or write_fprime returns, everything written to its
\* sink has been flushed.
C9_Flushed ==
  /\ (last # None /\ last.err = "none") => t0.jsonl.disk = Written(t0.jsonl)
  /\ (frame # None /\ frame.err = "none") => t0.fbin.disk = Written(t0.fbin)

\* C9 witness: both sinks written, the latest call returned
C9_Witness ==
  /\ frame # None /\ frame.err = "none"
  /\ t0.jsonl.disk = 1 /\ t0.fbin.disk = 1

\* C10 (as claimed): no tick record is built from session metadata that lacks
\* a required identifier.
C10_MetaRejected ==
  last # None => RequiredIds \subseteq DOMAIN last.rec

\* -------------------------------------------------------- claims under Spec

Abs(n) == IF n < 0 THEN -n ELSE n

\* C3 (as claimed): a record is made at step s exactly when N > 0 and s is a
\* positive multiple of N.
C3_PositiveCadenceOnly ==
  \A s \in checked :
    s \in recorded <=> (cfg.t0_every > 0 /\ s % cfg.t0_every = 0)

\* C3 (amended): in both loops a record is made at step s exactly when N # 0
\* and s is a positive multiple of |N|; cadence 5 over 12 ticks makes records
\* at steps 5 and 10 only, and cadence 0 makes none.
C3_Cadence ==
  /\ recorded \subseteq checked
  /\ \A s \in checked :
       s \in recorded <=> (cfg.t0_every # 0 /\ s > 0 /\ s % Abs(cfg.t0_every) = 0)
  /\ (cfg.t0_every = 5 /\ checked = 1..12) => recorded = {5, 10}
  /\ cfg.t0_every = 0 => recorded = {}

\* C3 witness: 12 ticks run at cadence 5, two records made
C3_Witness ==
  /\ cfg.t0_every = 5 /\ step = 12 /\ checked = 1..12
  /\ Cardinality(recorded) = 2

\* C4 (as claimed): every record written at a positive cadence that has a
\* previous record carries the damage taken on all ticks since that record:
\* health lost on a tick in between is never lost.
C4_NothingLost ==
  (mode # "api" /\ last # None /\ last.err = "none" /\ last.before.n > 0
     /\ cfg.t0_every > 0) =>
    last.rec["combat"].dmg_in_delta = last.window_dmg

\* C4 (amended): every record after the first carries the net health drop of
\* its window, max(0, health lost - health gained on the ticks since the
\* previous record), which is all the damage of the window when no health was
\* gained in it; the first record carries 0.
C4_NetDrop ==
  (mode # "api" /\ last # None) =>
    /\ last.before.n = 0 => last.rec["combat"].dmg_in_delta = 0
    /\ last.before.n > 0 =>
         /\ last.rec["combat"].dmg_in_delta
              = Max(0, last.window_dmg - last.window_gain)
         /\ last.window_gain = 0 =>
              last.rec["combat"].dmg_in_delta = last.window_dmg

\* C4 witness: a later record whose window lost health on two ticks, none of
\* them the recording tick's alone, and gained none
C4_Witness ==
  /\ mode # "api" /\ last # None /\ last.err = "none" /\ last.before.n > 0
  /\ cfg.t0_every = 5
  /\ last.window_gain = 0 /\ last.window_dmg = 60
  /\ last.rec["combat"].dmg_in_delta = 60

\* C5 (as claimed): no execution of run_episode or play_manual ends with a
\* sink still open.
C5_SinksClosed ==
  pc \in {"done", "raised"} => t0.jsonl.st # "Open" /\ t0.fbin.st # "Open"

\* C11 (as claimed): after any sequence of recording ticks on one recorder,
\* a manual session that restarts episodes included, the sum of kills_delta
\* over the records written equals the number of kills that occurred up to
\* the last record.
\* Read over the sessions with a positive cadence whose every record so far
\* reached its sink (tally.reported counts the written records only).
C11_NoKillDrift ==
  (mode # "api" /\ cfg.t0_every > 0 /\ last # None /\ last.err = "none") =>
    tally.reported = tally.occurred

====
